---------------------------- MODULE Spec2Model ----------------------------
(***************************************************************************)
(* nuxt-cache: time-bounded caching of fetch results.                      *)
(*                                                                         *)
(*   - the fetch wrapper (fetchMemoryCache): a session map of entries      *)
(*     {data, fetchedAt}, cachedFetch / clearCacheKey / clearCache /       *)
(*     getCacheKeys;                                                       *)
(*   - the storage family (createStorageHandler / createStorageCache /     *)
(*     useStorageCache) over localStorage through VueUse's useStorage;     *)
(*   - the memory family (useMemoryCache / createMemoryCache) over the     *)
(*     orchestrator's staged payload (nuxtApp.payload.data).               *)
(*   - the MemoryLink and StorageLink components, which prefetch on hover   *)
(*     into the store of their family;                                     *)
(*   - provideFetchMemoryCache / useFetchMemoryCache.                      *)
(*                                                                         *)
(* Time is the millisecond clock Date.now(), modelled as a counter.        *)
(***************************************************************************)
EXTENDS Integers, Sequences, FiniteSets, TLC

\* ------------------------------------------------------------------ bounds
MaxTime == 3
MaxDuration == 2

\* ------------------------------------------------------- program constants
\* ONE_HOUR, the duration cachedFetch uses when options.duration is absent.
ONE_HOUR == 3600000

\* ----------------------------------------------------------------- values
Keys == {"k1"}
\* The request URLs; a call may name one of them as its key as well.
Urls == {"/u1", "/u2"}
\* The URL of the calls whose overlap is studied.
DefaultUrl == "/u1"
\* The two callers of cachedFetch whose calls may overlap.
Calls == {"a", "b"}
Times == 0..MaxTime
Durations == 0..MaxDuration \cup {ONE_HOUR}
\* The caller, the durations and the payloads of the runs over two URLs.
StoreCaller == "a"
\* The key option of those calls: one of the URLs, or none.
StoreKeys == {"/u1", "undefined"}
StoreDurations == {0, MaxDuration}
StorePayloads == {"p1", "p2"}
\* The durations given to the links and to the hooks of their target pages.
LinkDurations == 0..MaxDuration

\* What the fetcher can resolve to: objects, JSON null, and undefined (an
\* empty response body).
Undefined == "undefined"
Null == "null"
Payloads == {"p1", "p2", Null, Undefined}

\* The numeric value of an invalid Date (getTime() of it is NaN).
NaN == -1

\* A JavaScript value found in a fetchedAt field.
\*   date    a Date object holding ms (NaN for an Invalid Date)
\*   iso     the ISO-8601 string Date.prototype.toJSON produces for ms
\*   text    a string that is not a date
\*   null    JSON null
\*   undef   the field is missing
DateV(ms) == [kind |-> "date", ms |-> ms]
IsoV(ms) == [kind |-> "iso", ms |-> ms]
TextV == [kind |-> "text", ms |-> 0]
NullV == [kind |-> "null", ms |-> 0]
UndefV == [kind |-> "undef", ms |-> 0]

\* new Date(v).getTime(): a Date copies, an ISO string parses to its
\* instant, null converts to 0 (the epoch), undefined and unparseable text
\* give NaN.
NewDate(v) ==
  CASE v.kind = "date" -> v.ms
    [] v.kind = "iso" -> v.ms
    [] v.kind = "null" -> 0
    [] OTHER -> NaN

\* The duration field of an options object that has none: undefined.
NoDuration == -2

\* expirationDate.setTime(expirationDate.getTime() + duration); any
\* arithmetic on NaN is NaN, and a number plus undefined is NaN.
AddMs(t, d) == IF t = NaN \/ d = NoDuration THEN NaN ELSE t + d

\* a < b on numbers; every comparison with NaN is false.
LessThan(a, b) == a # NaN /\ b # NaN /\ a < b

\* ---------------------------------------------------------- fetch wrapper
VARIABLES
  now,      \* Date.now()
  cache,    \* the Map behind useState('fetch-memory-cache'): key -> entry
  pc,       \* per caller, the state of its latest cachedFetch call:
            \*   "idle"      no call made yet
            \*   "awaiting"  the fetcher was invoked and its promise is awaited
            \*   "hit"       returned the cached payload, fetcher not invoked
            \*   "fetched"   the fetcher resolved; entry written, payload returned
            \*   "rejected"  the fetcher rejected; the rejection was propagated
  curl,     \* the url argument of the call
  ckey,     \* options.key of the call (Undefined when none was supplied)
  cforce,   \* options.force of the call
  cres,     \* the value the call returned
  changed,  \* the call's own steps have changed the map
  mgmt,     \* the latest clearCacheKey / clearCache / getCacheKeys /
            \* useFetchMemoryCache call and what it returned, until the next
            \* operation on the map
  provided, \* an ancestor component has called provideFetchMemoryCache
  mapCreated \* how often the initializer of useState('fetch-memory-cache')
            \* has run in this session, each run making a new Map

fetchVars ==
  <<cache, pc, curl, ckey, cforce, cres, changed, mgmt, provided, mapCreated>>

\* ------------------------------------------------- storage and memory hooks
VARIABLES
  payloadData,   \* nuxtApp.payload.data: orchestrator key -> staged value
  localStorage,  \* window.localStorage: storage key -> serialized record
  hook           \* the hook call made at the current instant, with its result

hookVars == <<payloadData, localStorage, hook>>

\* ------------------------------------------- MemoryLink and StorageLink
VARIABLES
  isPrefetching,  \* per link instance, its isPrefetching ref
  requests,       \* per link instance, the $fetch requests it has in flight
  prefetched      \* per link instance, whether a hover prefetch of it has
                  \* completed, and when the latest one did

linkVars == <<isPrefetching, requests, prefetched>>
vars == <<now, fetchVars, hookVars, linkVars>>

\* The JavaScript booleans a management call returns.
True == "true"
False == "false"
Bool(b) == IF b THEN True ELSE False

\* What provide/inject hands out: the object fetchMemoryCache returns.
Instance == "instance"

\* The outcome of a call that raised an error instead of returning.
Threw == "threw"

\* No management call since the last operation on the map.  Of a call are
\* kept: its name, its key argument, whether what it was about (the key, any
\* entry at all) was there before it, the value it returned, and for
\* getCacheKeys the keys it yielded and the management call it directly
\* follows (with that call's had).
NoCall ==
  [op |-> "none", key |-> Undefined, had |-> FALSE, ret |-> Undefined,
   keys |-> {}, prev |-> "none"]

\* A createMemoryHandler that stamps the entry with an instant before the
\* write.
createMemoryHandler_StampedEarlier(map, data, key) ==
  LET cachedData == [data |-> data,
                     fetchedAt |-> DateV(IF now > 0 THEN now - 1 ELSE 0)]
  IN [k \in DOMAIN map \cup {key} |-> IF k = key THEN cachedData ELSE map[k]]

\* createMemoryHandler(data, key): stamp the payload and set it under key.
createMemoryHandler(map, data, key) ==
  LET cachedData == [data |-> data, fetchedAt |-> DateV(now)]
  IN [k \in DOMAIN map \cup {key} |-> IF k = key THEN cachedData ELSE map[k]]

\* The expiry test of getMemoryCache:
\*   expirationDate = new Date(data.fetchedAt); += duration;
\*   isExpired = expirationDate.getTime() < Date.now()
isExpired(fetchedAt, duration) ==
  LessThan(AddMs(NewDate(fetchedAt), duration), now)

\* A delete that empties the map.
MapDelete_Clearing(map, key) == << >>

\* cache.value.delete(key)
MapDelete(map, key) == [k \in DOMAIN map \ {key} |-> map[k]]

\* A getMemoryCache that hands out the stored envelope {data, fetchedAt}
\* instead of the payload in it.
getMemoryCache_ReturningEnvelope(map, key, duration) ==
  IF key \notin DOMAIN map
  THEN [ret |-> Undefined, map |-> map]
  ELSE IF isExpired(map[key].fetchedAt, duration)
       THEN [ret |-> Undefined, map |-> MapDelete(map, key)]
       ELSE [ret |-> "envelope", map |-> map]

\* A getMemoryCache with sliding expiration: a hit stamps the entry anew.
getMemoryCache_Sliding(map, key, duration) ==
  IF key \notin DOMAIN map
  THEN [ret |-> Undefined, map |-> map]
  ELSE IF isExpired(map[key].fetchedAt, duration)
       THEN [ret |-> Undefined, map |-> MapDelete(map, key)]
       ELSE [ret |-> map[key].data,
             map |-> [map EXCEPT ![key].fetchedAt = DateV(now)]]

\* A getMemoryCache that reports an expired entry as a miss and leaves it in
\* the map.
getMemoryCache_Keeping(map, key, duration) ==
  IF key \notin DOMAIN map
  THEN [ret |-> Undefined, map |-> map]
  ELSE IF isExpired(map[key].fetchedAt, duration)
       THEN [ret |-> Undefined, map |-> map]
       ELSE [ret |-> map[key].data, map |-> map]

\* getMemoryCache(key, duration): the value returned and the map afterwards.
getMemoryCache(map, key, duration) ==
  IF key \notin DOMAIN map
  THEN [ret |-> Undefined, map |-> map]
  ELSE IF isExpired(map[key].fetchedAt, duration)
       THEN [ret |-> Undefined, map |-> MapDelete(map, key)]
       ELSE [ret |-> map[key].data, map |-> map]

\* A lookup that consults the cache even when force is set.
Lookup_IgnoringForce(map, key, duration, force) ==
  LET look == getMemoryCache(map, key, duration)
  IN [hit |-> look.ret # Undefined, ret |-> look.ret, map |-> look.map]

\* A lookup that, when forced, drops the entry under the key before the
\* fetch.
Lookup_EvictingOnForce(map, key, duration, force) ==
  LET look == IF force THEN [ret |-> Undefined, map |-> MapDelete(map, key)]
              ELSE getMemoryCache(map, key, duration)
  IN [hit |-> ~force /\ look.ret # Undefined, ret |-> look.ret, map |-> look.map]

\* The part of cachedFetch before its await: the lookup (skipped when
\* forced) and the decision to return the cached value.
Lookup(map, key, duration, force) ==
  LET look == IF force THEN [ret |-> Undefined, map |-> map]
              ELSE getMemoryCache(map, key, duration)
  IN [hit |-> ~force /\ look.ret # Undefined, ret |-> look.ret, map |-> look.map]

\* A cachedFetch that joins a fetch already in flight for the same key
\* instead of invoking the fetcher again.
CachedFetch_SingleFlight(c, url, key, duration, force) ==
  /\ pc[c] # "awaiting"
  /\ LET r == Lookup(cache, key, duration, force)
         joined == \E o \in Calls \ {c} : pc[o] = "awaiting" /\ ckey[o] = key
     IN /\ cache' = r.map
        /\ pc' = [pc EXCEPT ![c] = IF r.hit \/ joined THEN "hit" ELSE "awaiting"]
        /\ cres' = [cres EXCEPT ![c] = IF r.hit THEN r.ret ELSE Undefined]
        /\ changed' = [changed EXCEPT ![c] = r.map # cache]
  /\ curl' = [curl EXCEPT ![c] = url]
  /\ ckey' = [ckey EXCEPT ![c] = key]
  /\ cforce' = [cforce EXCEPT ![c] = force]
  /\ mgmt' = NoCall
  /\ UNCHANGED <<now, provided, hookVars, linkVars,
                 mapCreated>>

\* A cachedFetch that marks the key with a placeholder entry while its fetch
\* is in flight.
CachedFetch_Placeholder(c, url, key, duration, force) ==
  /\ pc[c] # "awaiting"
  /\ LET r == Lookup(cache, key, duration, force)
     IN /\ cache' = IF r.hit THEN r.map
                    ELSE createMemoryHandler(r.map, Undefined, key)
        /\ pc' = [pc EXCEPT ![c] = IF r.hit THEN "hit" ELSE "awaiting"]
        /\ cres' = [cres EXCEPT ![c] = IF r.hit THEN r.ret ELSE Undefined]
        /\ changed' = [changed EXCEPT ![c] = cache' # cache]
  /\ curl' = [curl EXCEPT ![c] = url]
  /\ ckey' = [ckey EXCEPT ![c] = key]
  /\ cforce' = [cforce EXCEPT ![c] = force]
  /\ mgmt' = NoCall
  /\ UNCHANGED <<now, provided, hookVars, linkVars, mapCreated>>

\* cachedFetch(url, {key, duration, force}) up to its await: either the
\* cached value is returned or the fetcher is invoked.  key is destructured
\* from the options without a default, so a call that supplies none looks up
\* and stores under undefined.
CachedFetch(c, url, key, duration, force) ==
  /\ pc[c] # "awaiting"
  /\ LET r == Lookup(cache, key, duration, force)
     IN /\ cache' = r.map
        /\ pc' = [pc EXCEPT ![c] = IF r.hit THEN "hit" ELSE "awaiting"]
        /\ cres' = [cres EXCEPT ![c] = IF r.hit THEN r.ret ELSE Undefined]
        /\ changed' = [changed EXCEPT ![c] = r.map # cache]
  /\ curl' = [curl EXCEPT ![c] = url]
  /\ ckey' = [ckey EXCEPT ![c] = key]
  /\ cforce' = [cforce EXCEPT ![c] = force]
  /\ mgmt' = NoCall
  /\ UNCHANGED <<now, provided, hookVars, linkVars,
                 mapCreated>>

\* A resolution after which the entry is written but cachedFetch never
\* returns to its caller.
FetcherResolve_Hanging(c, data) ==
  /\ pc[c] = "awaiting"
  /\ cache' = createMemoryHandler(cache, data, ckey[c])
  /\ changed' = [changed EXCEPT ![c] = changed[c] \/ cache' # cache]
  /\ mgmt' = NoCall
  /\ UNCHANGED <<now, pc, cres, curl, ckey, cforce, provided, hookVars,
                 linkVars, mapCreated>>

\* The awaited fetcher promise resolves with data: the entry is written and
\* the payload returned.
FetcherResolve(c, data) ==
  /\ pc[c] = "awaiting"
  /\ cache' = createMemoryHandler(cache, data, ckey[c])
  /\ pc' = [pc EXCEPT ![c] = "fetched"]
  /\ cres' = [cres EXCEPT ![c] = data]
  /\ changed' = [changed EXCEPT ![c] = changed[c] \/ cache' # cache]
  /\ mgmt' = NoCall
  /\ UNCHANGED <<now, curl, ckey, cforce, provided, hookVars, linkVars,
                 mapCreated>>

\* A rejection handler that records the failed attempt in the map.
FetcherReject_Poisoning(c) ==
  /\ pc[c] = "awaiting"
  /\ cache' = createMemoryHandler(cache, Undefined, ckey[c])
  /\ pc' = [pc EXCEPT ![c] = "rejected"]
  /\ changed' = [changed EXCEPT ![c] = changed[c] \/ cache' # cache]
  /\ mgmt' = NoCall
  /\ UNCHANGED <<now, curl, ckey, cforce, cres, provided, hookVars, linkVars,
                 mapCreated>>

\* The awaited fetcher promise rejects: the rejection leaves cachedFetch.
FetcherReject(c) ==
  /\ pc[c] = "awaiting"
  /\ pc' = [pc EXCEPT ![c] = "rejected"]
  /\ mgmt' = NoCall
  /\ UNCHANGED <<now, cache, curl, ckey, cforce, cres, changed, provided,
                 hookVars, linkVars,
                 mapCreated>>

\* The fetcher promise a call awaits settles, one way or the other.
Settle(c) == (\E data \in Payloads : FetcherResolve(c, data)) \/ FetcherReject(c)

\* A clearCacheKey that reports success whether or not the key was there.
ClearCacheKey_AlwaysTrue(key) ==
  /\ cache' = MapDelete(cache, key)
  /\ mgmt' = [NoCall EXCEPT !.op = "clearCacheKey", !.key = key,
                            !.had = key \in DOMAIN cache, !.ret = True]
  /\ UNCHANGED <<now, pc, curl, ckey, cforce, cres, changed, provided,
                 hookVars, linkVars,
                 mapCreated>>

\* A clearCacheKey that also cancels the fetches in flight for the key: their
\* calls end as rejected.
ClearCacheKey_Cancelling(key) ==
  /\ cache' = MapDelete(cache, key)
  /\ pc' = [c \in Calls |->
             IF pc[c] = "awaiting" /\ ckey[c] = key THEN "rejected" ELSE pc[c]]
  /\ mgmt' = [NoCall EXCEPT !.op = "clearCacheKey", !.key = key,
                            !.had = key \in DOMAIN cache,
                            !.ret = Bool(key \in DOMAIN cache)]
  /\ UNCHANGED <<now, curl, ckey, cforce, cres, changed, provided,
                 hookVars, linkVars, mapCreated>>

\* clearCacheKey(key): return cache.value.delete(key), which is true exactly
\* when the map had the key.
ClearCacheKey(key) ==
  /\ cache' = MapDelete(cache, key)
  /\ mgmt' = [NoCall EXCEPT !.op = "clearCacheKey", !.key = key,
                            !.had = key \in DOMAIN cache,
                            !.ret = Bool(key \in DOMAIN cache)]
  /\ UNCHANGED <<now, pc, curl, ckey, cforce, cres, changed, provided,
                 hookVars, linkVars,
                 mapCreated>>

\* A clearCache that spares the entries of fetches still in flight.
ClearCache_SparingInFlight ==
  /\ cache' = [k \in {x \in DOMAIN cache :
                        \E c \in Calls : pc[c] = "awaiting" /\ ckey[c] = x}
                 |-> cache[k]]
  /\ mgmt' = [NoCall EXCEPT !.op = "clearCache", !.had = DOMAIN cache # {},
                            !.ret = True]
  /\ UNCHANGED <<now, pc, curl, ckey, cforce, cres, changed, provided,
                 hookVars, linkVars,
                 mapCreated>>

\* clearCache(): cache.value.clear(); return true
ClearCache ==
  /\ cache' = << >>
  /\ mgmt' = [NoCall EXCEPT !.op = "clearCache", !.had = DOMAIN cache # {},
                            !.ret = True]
  /\ UNCHANGED <<now, pc, curl, ckey, cforce, cres, changed, provided,
                 hookVars, linkVars,
                 mapCreated>>

\* A key listing that leaves out the entries older than every bounded
\* duration.
getCacheKeys_HidingExpired(map) ==
  {k \in DOMAIN map : ~(map[k].fetchedAt.ms + MaxDuration < now)}

\* Array.from(cache.value.keys()); the array is kept as the set of its
\* elements, the order of the keys is not modelled.
getCacheKeys(map) == DOMAIN map

\* getCacheKeys().value is evaluated.
GetCacheKeys ==
  /\ mgmt' = [NoCall EXCEPT !.op = "getCacheKeys",
                            !.prev = mgmt.op, !.had = mgmt.had,
                            !.keys = getCacheKeys(cache)]
  /\ UNCHANGED <<now, cache, pc, curl, ckey, cforce, cres, changed, provided,
                 hookVars, linkVars,
                 mapCreated>>

\* useState(key, init): the session slot under the key is initialized by
\* init() when it is still undefined, and a reference to the slot is
\* returned.  Given are the number of initializations so far and the map in
\* the slot; returned are both afterwards.
useState(created, map) ==
  IF created = 0
  THEN [created |-> 1, map |-> << >>]
  ELSE [created |-> created, map |-> map]

\* A fetchMemoryCache that makes a map of its own for every instance.
FetchMemoryCache_OwnMap ==
  /\ mapCreated < 2
  /\ mapCreated' = mapCreated + 1
  /\ cache' = << >>
  /\ mgmt' = [NoCall EXCEPT !.op = "fetchMemoryCache", !.had = DOMAIN cache # {}]
  /\ UNCHANGED <<now, pc, curl, ckey, cforce, cres, changed, provided,
                 hookVars, linkVars>>

\* fetchMemoryCache(fetcher): a further instance is made in the session; its
\* cache is useState('fetch-memory-cache', () => new Map()).  had records
\* that the map held entries when the instance was made.
FetchMemoryCache ==
  /\ LET state == useState(mapCreated, cache)
     IN /\ mapCreated' = state.created
        /\ cache' = state.map
  /\ mgmt' = [NoCall EXCEPT !.op = "fetchMemoryCache", !.had = DOMAIN cache # {}]
  /\ UNCHANGED <<now, pc, curl, ckey, cforce, cres, changed, provided,
                 hookVars, linkVars>>

\* provideFetchMemoryCache(fetcher) in an ancestor component: an instance is
\* made (its useState finds the slot initialized) and provided.
ProvideFetchMemoryCache ==
  /\ provided' = TRUE
  /\ mgmt' = NoCall
  /\ UNCHANGED <<now, cache, pc, curl, ckey, cforce, cres, changed,
                 hookVars, linkVars,
                 mapCreated>>

\* inject(storeKey): the provided value, or undefined when no ancestor
\* provided one.
inject(isProvided) == IF isProvided THEN Instance ELSE Undefined

\* useFetchMemoryCache(): return inject(storeKey)!  (the non-null assertion
\* is erased at compile time).
UseFetchMemoryCache ==
  /\ mgmt' = [NoCall EXCEPT !.op = "useFetchMemoryCache", !.had = provided,
                            !.ret = inject(provided)]
  /\ UNCHANGED <<now, cache, pc, curl, ckey, cforce, cres, changed, provided,
                 hookVars, linkVars,
                 mapCreated>>

\* The orchestrator key of the page using the storage family, the one of the
\* page using the memory family, and the storage key of the former.
StorageOrchKey == "ks"
MemoryOrchKey == "km"
OrchKeys == {StorageOrchKey, MemoryOrchKey}
StorageKeys == {"__memory_cache__ks"}

\* A value staged under an orchestrator key: nothing, a bare payload, an
\* envelope {data, fetchedAt}, or a payload's own fields with a fetchedAt
\* field added to them (data then names the payload whose fields they are).
NoValue == [kind |-> "undef", data |-> Undefined, fetchedAt |-> UndefV]
Raw(p) ==
  IF p = Undefined THEN NoValue
  ELSE [kind |-> "raw", data |-> p, fetchedAt |-> UndefV]
Envelope(p, at) == [kind |-> "env", data |-> p, fetchedAt |-> at]
Spread(p, at) == [kind |-> "spread", data |-> p, fetchedAt |-> at]

\* !value : undefined and null are falsy, objects are truthy.
Falsy(v) == v.kind = "undef" \/ (v.kind = "raw" /\ v.data = Null)

\* No hook call was made at the current instant.
NoHook ==
  [op |-> "none", dur |-> 0, arg |-> Undefined, had |-> FALSE,
   pre |-> NoValue, ret |-> NoValue]

\* JSON.stringify of a fetchedAt field: a valid Date becomes its ISO string,
\* an Invalid Date becomes null, a string stays a string, an undefined field
\* is dropped.
ToJSON(v) ==
  IF v.kind = "date"
  THEN IF v.ms = NaN THEN NullV ELSE IsoV(v.ms)
  ELSE v

\* The 'object' serializer of useStorage: JSON.stringify of {data, fetchedAt}.
Serialize(rec) == [data |-> rec.data, fetchedAt |-> ToJSON(rec.fetchedAt)]

\* {...defaults, ...stored}: every field the stored record has wins.
MergeDefaults(defaults, stored) ==
  [data |-> IF stored.data # Undefined THEN stored.data ELSE defaults.data,
   fetchedAt |-> IF stored.fetchedAt.kind # "undef" THEN stored.fetchedAt
                 ELSE defaults.fetchedAt]

\* useStorage(key, defaults, undefined, {mergeDefaults}): the value of the
\* returned ref and localStorage afterwards.  A missing item is written from
\* the defaults; a present item is read, merged over the defaults when
\* mergeDefaults is set, and left as it is.
useStorage(ls, key, defaults, mergeDefaults) ==
  IF key \notin DOMAIN ls
  THEN [value |-> defaults,
        ls |-> [k \in DOMAIN ls \cup {key} |->
                  IF k = key THEN Serialize(defaults) ELSE ls[k]]]
  ELSE [value |-> IF mergeDefaults THEN MergeDefaults(defaults, ls[key])
                  ELSE ls[key],
        ls |-> ls]

\* storage.value = null : useStorage removes the item.
RemoveItem(ls, key) == [k \in DOMAIN ls \ {key} |-> ls[k]]

\* createStorageHandler(storageKey, data)
createStorageHandler(ls, storageKey, data) ==
  LET storageData == [data |-> data, fetchedAt |-> DateV(now)]
  IN useStorage(ls, storageKey, storageData, TRUE)

\* The expiry test of createStorageCache.
storageIsExpired(fetchedAt, duration) ==
  LessThan(AddMs(NewDate(fetchedAt), duration), now)

\* createStorageCache({key, nuxtApp, storageKey, duration}): the value
\* returned, localStorage when the call returns, and whether the call set
\* storage.value = null.  useStorage writes that change through from a
\* watcher (flush 'pre'), which runs after the current synchronous code:
\* the item is still there for a call made later in the same handler and is
\* gone before the next event.
createStorageCache(ls, app, storageKey, duration) ==
  LET storage == useStorage(ls, storageKey,
                            [data |-> app, fetchedAt |-> DateV(now)], FALSE)
  IN IF storageIsExpired(storage.value.fetchedAt, duration)
     THEN [ret |-> Undefined, ls |-> storage.ls, evicted |-> TRUE]
     ELSE [ret |-> storage.value.data, ls |-> storage.ls, evicted |-> FALSE]

\* The pending watchers of useStorage run: the item whose ref was set to
\* null is removed.
FlushStorage(ls, storageKey, evicted) ==
  IF evicted THEN RemoveItem(ls, storageKey) ELSE ls

\* The record under a storage key as a value, for the hook record.
RecordValue(ls, key) ==
  IF key \in DOMAIN ls THEN Envelope(ls[key].data, ls[key].fetchedAt) ELSE NoValue

\* useStorageCache().transform(input): createStorageHandler(...).value.data
StorageTransform(storageKey, input) ==
  /\ LET ref == createStorageHandler(localStorage, storageKey, input)
     IN /\ localStorage' = ref.ls
        /\ hook' = [op |-> "storageTransform", dur |-> 0, arg |-> input,
                    had |-> storageKey \in DOMAIN localStorage,
                    pre |-> RecordValue(localStorage, storageKey),
                    ret |-> Raw(ref.value.data)]
  /\ UNCHANGED <<now, payloadData, fetchVars, linkVars>>

\* useStorageCache().getCachedData(key, nuxtApp) with the configured duration
StorageGetCachedData(key, storageKey, duration) ==
  /\ LET app == payloadData[key].data
         r == createStorageCache(localStorage, app, storageKey, duration)
     IN /\ localStorage' = FlushStorage(r.ls, storageKey, r.evicted)
        /\ hook' = [op |-> "storageGetCachedData", dur |-> duration, arg |-> app,
                    had |-> storageKey \in DOMAIN localStorage,
                    pre |-> RecordValue(localStorage, storageKey),
                    ret |-> Raw(r.ret)]
  /\ UNCHANGED <<now, payloadData, fetchVars, linkVars>>

\* useMemoryCache().transform(input): {...input, fetchedAt: new Date()}
MemoryTransform(input) ==
  /\ hook' = [op |-> "memoryTransform", dur |-> 0, arg |-> input, had |-> FALSE,
              pre |-> NoValue, ret |-> Spread(input, DateV(now))]
  /\ UNCHANGED <<now, payloadData, localStorage, fetchVars, linkVars>>

\* useMemoryCache().transform(input) as built on the helper:
\* createMemoryHandler(input), that is { data: input, fetchedAt: new Date() }
MemoryHandlerTransform(input) ==
  /\ hook' = [op |-> "memoryHandlerTransform", dur |-> 0, arg |-> input,
              had |-> FALSE, pre |-> NoValue,
              ret |-> Envelope(input, DateV(now))]
  /\ UNCHANGED <<now, payloadData, localStorage, fetchVars, linkVars>>

\* The expiry test of useMemoryCache().getCachedData.
memoryIsExpired(fetchedAt, duration) ==
  LessThan(AddMs(NewDate(fetchedAt), duration), now)

\* nuxtApp.static.data[key]: nothing is staged there.
staticData(key) == NoValue

\* getCachedData(key, nuxtApp) of useMemoryCache: the value returned.
getCachedData(staged, key, duration) ==
  LET data == IF Falsy(staged[key]) THEN staticData(key) ELSE staged[key]
  IN IF Falsy(data) THEN NoValue
     ELSE IF memoryIsExpired(data.fetchedAt, duration) THEN NoValue
     ELSE data

\* A memory read that drops the staged value it finds expired.
MemoryGetCachedData_Evicting(key, duration) ==
  /\ hook' = [op |-> "memoryGetCachedData", dur |-> duration, arg |-> Undefined,
              had |-> ~Falsy(payloadData[key]), pre |-> payloadData[key],
              ret |-> getCachedData(payloadData, key, duration)]
  /\ payloadData' =
       IF ~Falsy(payloadData[key])
          /\ memoryIsExpired(payloadData[key].fetchedAt, duration)
       THEN [payloadData EXCEPT ![key] = NoValue]
       ELSE payloadData
  /\ UNCHANGED <<now, localStorage, fetchVars, linkVars>>

\* useMemoryCache().getCachedData(key, nuxtApp) with the configured duration
MemoryGetCachedData(key, duration) ==
  /\ hook' = [op |-> "memoryGetCachedData", dur |-> duration, arg |-> Undefined,
              had |-> ~Falsy(payloadData[key]), pre |-> payloadData[key],
              ret |-> getCachedData(payloadData, key, duration)]
  /\ UNCHANGED <<now, payloadData, localStorage, fetchVars, linkVars>>

\* The orchestrator stages what the transform hook just returned under the
\* request's key.
OrchStage(key) ==
  /\ \/ key = StorageOrchKey /\ hook.op = "storageTransform"
     \/ key = MemoryOrchKey /\ hook.op = "memoryTransform"
     \/ key = MemoryOrchKey /\ hook.op = "memoryHandlerTransform"
  /\ payloadData' = [payloadData EXCEPT ![key] = hook.ret]
  /\ hook' = [NoHook EXCEPT !.op = "stage"]
  /\ UNCHANGED <<now, localStorage, fetchVars, linkVars>>

\* A useFetch on the same key whose transform returns the bare payload (it
\* does not go through the memory family's transform) resolves: the
\* orchestrator stages the payload as it is, without a fetchedAt.
StagePlain(key, p) ==
  /\ payloadData' = [payloadData EXCEPT ![key] = Raw(p)]
  /\ hook' = [NoHook EXCEPT !.op = "stagePlain", !.arg = p]
  /\ UNCHANGED <<now, localStorage, fetchVars, linkVars>>

\* The page is reloaded: the staged payload is gone, localStorage stays.
Reload ==
  /\ payloadData' = [k \in OrchKeys |-> NoValue]
  /\ hook' = [NoHook EXCEPT !.op = "reload"]
  /\ UNCHANGED <<now, localStorage, fetchVars, linkVars>>

\* Something outside the cache rewrites the timestamp of a stored record
\* into text that is no date, or drops it.
CorruptTimestamp(storageKey, bad) ==
  /\ storageKey \in DOMAIN localStorage
  /\ localStorage' = [localStorage EXCEPT ![storageKey].fetchedAt = bad]
  /\ hook' = [NoHook EXCEPT !.op = "corrupt"]
  /\ UNCHANGED <<now, payloadData, fetchVars, linkVars>>

\* The argument a hook pair is constructed with: none at all, an options
\* object with only a key, or an options object with a duration.
NoOptions == [given |-> FALSE, duration |-> NoDuration]
OnlyKey == [given |-> TRUE, duration |-> NoDuration]
WithDuration(d) == [given |-> TRUE, duration |-> d]
HookOptions == {NoOptions, OnlyKey, WithDuration(MaxDuration)}

\* useStorageCache(cacheOptions = { duration: 3_600_000 }): the default
\* replaces a missing argument, not a missing field; getCachedData passes
\* cacheOptions.duration on.
useStorageCache(cacheOptions) ==
  IF cacheOptions.given THEN cacheOptions ELSE WithDuration(3600000)

\* useMemoryCache(cacheOptions = { duration: 3_600_000 }), likewise.
useMemoryCache(cacheOptions) ==
  IF cacheOptions.given THEN cacheOptions ELSE WithDuration(3600000)

\* const { duration = ONE_HOUR, ... } = options of cachedFetch: the default
\* replaces a missing field.
cachedFetchDuration(options) ==
  IF options.duration = NoDuration THEN ONE_HOUR ELSE options.duration

\* The two link instances of the page, one MemoryLink and one StorageLink.
\* The cacheKey of the MemoryLink is the orchestrator key of the page using
\* the memory family; the cacheKey of the StorageLink is the key given to
\* useStorageCache({ key }) on the page using the storage family.
MemoryLink == "MemoryLink"
StorageLink == "StorageLink"
Links == {MemoryLink, StorageLink}
cacheKey(l) == IF l = MemoryLink THEN MemoryOrchKey ELSE StorageOrchKey

\* What $fetch(props.url) of a link can resolve to.
Responses == {"p1", Null}

\* String({ storageKey, data }): the localStorage key an object passed as a
\* key is coerced to.
ObjectKey == "[object Object]"

\* !!value of a payload
Truthy(p) == p # Undefined /\ p # Null

\* createMemoryHandler(data) of the memory family: { data, fetchedAt: new Date() }
memoryHandler(data) == Envelope(data, DateV(now))

\* createMemoryCache({ key, nuxtApp, duration }): the value returned.
createMemoryCache(staged, key, duration) ==
  LET data == IF Falsy(staged[key]) THEN staticData(key) ELSE staged[key]
  IN IF Falsy(data) THEN NoValue
     ELSE IF LessThan(AddMs(NewDate(data.fetchedAt), duration), now) THEN NoValue
     ELSE data

\* hasValidCache() of a link: the answer, localStorage when it returns and
\* whether a removal of the item is pending.
hasValidCache(l, ls, staged, duration) ==
  IF l = MemoryLink
  THEN [valid |-> ~Falsy(createMemoryCache(staged, cacheKey(l), duration)),
        ls |-> ls, evicted |-> FALSE]
  ELSE LET r == createStorageCache(ls, staged[cacheKey(l)].data, cacheKey(l),
                                   duration)
       IN [valid |-> Truthy(r.ret), ls |-> r.ls, evicted |-> r.evicted]

\* useCacheLink() of a link up to its await: whether cached data was found
\* (then nothing is fetched), localStorage at that point and whether a
\* removal of the item is pending.
useCacheLink(l, ls, staged, duration) ==
  IF l = MemoryLink
  THEN [cached |-> ~Falsy(createMemoryCache(staged, cacheKey(l), duration)),
        ls |-> ls, evicted |-> FALSE]
  ELSE LET r == createStorageCache(ls, staged[cacheKey(l)].data, cacheKey(l),
                                   duration)
       IN [cached |-> Truthy(r.ret), ls |-> r.ls, evicted |-> r.evicted]

\* A hover handler without the isPrefetching guard.
LinkHover_Unguarded(l, prefetch, cacheDuration) ==
  /\ requests[l] < 2
  /\ LET valid == IF prefetch
                  THEN hasValidCache(l, localStorage, payloadData, cacheDuration)
                  ELSE [valid |-> FALSE, ls |-> localStorage, evicted |-> FALSE]
         link == useCacheLink(l, valid.ls, payloadData, cacheDuration)
     IN IF ~prefetch \/ valid.valid
        THEN /\ localStorage' = FlushStorage(valid.ls, cacheKey(l), valid.evicted)
             /\ UNCHANGED <<isPrefetching, requests>>
        ELSE /\ localStorage' = FlushStorage(link.ls, cacheKey(l),
                                            valid.evicted \/ link.evicted)
             /\ isPrefetching' = [isPrefetching EXCEPT ![l] = ~link.cached]
             /\ requests' = [requests EXCEPT ![l] = IF link.cached THEN @ ELSE @ + 1]
  /\ hook' = [NoHook EXCEPT !.op = "hover", !.had = requests[l] > 0]
  /\ UNCHANGED <<now, payloadData, prefetched, fetchVars>>

\* onHover() of a link: nothing happens when prefetch is off, a prefetch is
\* under way or the cache is valid; otherwise isPrefetching is set and
\* useCacheLink() runs up to its await, issuing the request unless it finds
\* cached data (then its promise settles at once and isPrefetching is reset).
\* The hook record keeps whether a request of the link was in flight when
\* the pointer entered.
LinkHover(l, prefetch, cacheDuration) ==
  /\ LET guarded == ~prefetch \/ isPrefetching[l]
         valid == IF guarded
                  THEN [valid |-> FALSE, ls |-> localStorage, evicted |-> FALSE]
                  ELSE hasValidCache(l, localStorage, payloadData, cacheDuration)
         link == useCacheLink(l, valid.ls, payloadData, cacheDuration)
     IN IF guarded \/ valid.valid
        THEN /\ localStorage' = FlushStorage(valid.ls, cacheKey(l), valid.evicted)
             /\ UNCHANGED <<isPrefetching, requests>>
        ELSE /\ localStorage' = FlushStorage(link.ls, cacheKey(l),
                                            valid.evicted \/ link.evicted)
             /\ isPrefetching' = [isPrefetching EXCEPT ![l] = ~link.cached]
             /\ requests' = [requests EXCEPT ![l] = IF link.cached THEN @ ELSE @ + 1]
  /\ hook' = [NoHook EXCEPT !.op = "hover", !.had = requests[l] > 0]
  /\ UNCHANGED <<now, payloadData, prefetched, fetchVars>>

\* The request of a link resolves: the MemoryLink stages the stamped response
\* under its cacheKey; the StorageLink calls createStorageHandler with the
\* single object { storageKey, data }, so the key is that object and the data
\* undefined.  Then the promise settles and isPrefetching is reset.
LinkResolve(l, response) ==
  /\ requests[l] > 0
  /\ IF l = MemoryLink
     THEN /\ payloadData' = [payloadData EXCEPT ![cacheKey(l)] = memoryHandler(response)]
          /\ UNCHANGED localStorage
     ELSE /\ localStorage' = createStorageHandler(localStorage, ObjectKey, Undefined).ls
          /\ UNCHANGED payloadData
  /\ requests' = [requests EXCEPT ![l] = @ - 1]
  /\ isPrefetching' = [isPrefetching EXCEPT ![l] = FALSE]
  /\ prefetched' = [prefetched EXCEPT ![l] = [done |-> TRUE, at |-> now]]
  /\ hook' = [NoHook EXCEPT !.op = "prefetched", !.arg = response]
  /\ UNCHANGED <<now, fetchVars>>

\* A rejection after which isPrefetching is left set (no finally clause).
LinkReject_Stuck(l) ==
  /\ requests[l] > 0
  /\ requests' = [requests EXCEPT ![l] = @ - 1]
  /\ hook' = [NoHook EXCEPT !.op = "prefetchFailed"]
  /\ UNCHANGED <<now, payloadData, localStorage, prefetched, isPrefetching,
                 fetchVars>>

\* The request of a link rejects: nothing is stored, isPrefetching is reset.
LinkReject(l) ==
  /\ requests[l] > 0
  /\ requests' = [requests EXCEPT ![l] = @ - 1]
  /\ isPrefetching' = [isPrefetching EXCEPT ![l] = FALSE]
  /\ hook' = [NoHook EXCEPT !.op = "prefetchFailed"]
  /\ UNCHANGED <<now, payloadData, localStorage, prefetched, fetchVars>>

\* The $fetch request of a link settles, one way or the other.
LinkSettle(l) ==
  (\E response \in Responses : LinkResolve(l, response)) \/ LinkReject(l)

\* The clock advances by one millisecond.
Tick ==
  /\ now < MaxTime
  /\ now' = now + 1
  /\ hook' = NoHook
  /\ UNCHANGED <<fetchVars, payloadData, localStorage, linkVars>>

\* More than an hour passes without any call.
Sleep ==
  /\ now <= MaxTime
  /\ now' = now + ONE_HOUR + 1
  /\ hook' = NoHook
  /\ UNCHANGED <<fetchVars, payloadData, localStorage, linkVars>>

Init ==
  /\ now = 0
  /\ cache = << >>
  /\ pc = [c \in Calls |-> "idle"]
  /\ curl = [c \in Calls |-> DefaultUrl]
  /\ ckey = [c \in Calls |-> "k1"]
  /\ cforce = [c \in Calls |-> FALSE]
  /\ cres = [c \in Calls |-> Undefined]
  /\ changed = [c \in Calls |-> FALSE]
  /\ mgmt = NoCall
  /\ provided = FALSE
  /\ mapCreated = 1
  /\ isPrefetching = [l \in Links |-> FALSE]
  /\ requests = [l \in Links |-> 0]
  /\ prefetched = [l \in Links |-> [done |-> FALSE, at |-> 0]]
  /\ payloadData = [k \in OrchKeys |-> NoValue]
  /\ localStorage = << >>
  /\ hook = NoHook

Next ==
  \/ Tick
  \/ \E c \in Calls, key \in Keys, duration \in Durations, force \in BOOLEAN :
       CachedFetch(c, DefaultUrl, key, duration, force)
  \/ \E c \in Calls, data \in Payloads : FetcherResolve(c, data)
  \/ \E c \in Calls : FetcherReject(c)
  \/ \E key \in Keys : ClearCacheKey(key)
  \/ ClearCache

HookNext ==
  \/ Tick
  \/ \E sk \in StorageKeys, input \in Payloads : StorageTransform(sk, input)
  \/ \E sk \in StorageKeys, duration \in Durations :
       StorageGetCachedData(StorageOrchKey, sk, duration)
  \/ \E input \in Payloads : MemoryTransform(input)
  \/ \E input \in Payloads : MemoryHandlerTransform(input)
  \/ \E duration \in Durations : MemoryGetCachedData(MemoryOrchKey, duration)
  \/ \E key \in OrchKeys : OrchStage(key)
  \/ Reload
  \/ \E sk \in StorageKeys, bad \in {TextV, UndefV} : CorruptTimestamp(sk, bad)

\* One caller, two URLs.  A call names a URL as its key or supplies no key;
\* the management calls are made, and the cache is provided and injected.
StoreNext ==
  \/ Tick
  \/ \E url \in Urls, key \in StoreKeys, duration \in StoreDurations,
        force \in BOOLEAN :
       CachedFetch(StoreCaller, url, key, duration, force)
  \/ \E data \in StorePayloads : FetcherResolve(StoreCaller, data)
  \/ FetcherReject(StoreCaller)
  \/ \E key \in StoreKeys : ClearCacheKey(key)
  \/ ClearCache
  \/ GetCacheKeys
  \/ FetchMemoryCache
  \/ ProvideFetchMemoryCache
  \/ UseFetchMemoryCache

\* The links are hovered and their requests settle; the target pages read
\* through the hooks of the matching family.
LinkNext ==
  \/ Tick
  \/ \E l \in Links, prefetch \in BOOLEAN, cacheDuration \in LinkDurations :
       LinkHover(l, prefetch, cacheDuration)
  \/ \E l \in Links, response \in Responses : LinkResolve(l, response)
  \/ \E l \in Links : LinkReject(l)
  \/ \E sk \in StorageKeys, duration \in LinkDurations :
       StorageGetCachedData(StorageOrchKey, sk, duration)
  \/ \E duration \in LinkDurations : MemoryGetCachedData(MemoryOrchKey, duration)

\* Hook pairs and cachedFetch calls with and without a duration, with more
\* than an hour between a write and a read.
DefaultNext ==
  \/ Tick
  \/ Sleep
  \/ \E sk \in StorageKeys : StorageTransform(sk, "p1")
  \/ \E sk \in StorageKeys, o \in HookOptions :
       StorageGetCachedData(StorageOrchKey, sk, useStorageCache(o).duration)
  \/ MemoryTransform("p1")
  \/ OrchStage(MemoryOrchKey)
  \/ \E o \in HookOptions :
       MemoryGetCachedData(MemoryOrchKey, useMemoryCache(o).duration)
  \/ \E o \in {OnlyKey, WithDuration(MaxDuration)} :
       CachedFetch(StoreCaller, DefaultUrl, "k1", cachedFetchDuration(o), FALSE)
  \/ FetcherResolve(StoreCaller, "p1")

\* The memory family reading a key under which values are staged both
\* through its own transform and by fetches that bypass it.
PlainNext ==
  \/ Tick
  \/ \E input \in StorePayloads : MemoryTransform(input)
  \/ \E input \in StorePayloads : MemoryHandlerTransform(input)
  \/ OrchStage(MemoryOrchKey)
  \/ \E p \in StorePayloads : StagePlain(MemoryOrchKey, p)
  \/ \E duration \in Durations : MemoryGetCachedData(MemoryOrchKey, duration)

Spec == Init /\ [][Next]_vars

PlainSpec == Init /\ [][PlainNext]_vars

\* The links with requests that eventually settle.
LinkLiveSpec ==
  Init /\ [][LinkNext]_vars /\ \A l \in Links : WF_vars(LinkSettle(l))

\* The fetch wrapper with fetchers whose promises eventually settle.
LiveSpec == Init /\ [][Next]_vars /\ \A c \in Calls : WF_vars(Settle(c))

DefaultSpec == Init /\ [][DefaultNext]_vars

StoreSpec == Init /\ [][StoreNext]_vars

LinkSpec == Init /\ [][LinkNext]_vars

HookSpec == Init /\ [][HookNext]_vars

TypeOK ==
  /\ now \in Times
  /\ DOMAIN cache \subseteq Keys \cup Urls \cup {Undefined}
  /\ \A k \in DOMAIN cache : cache[k].data \in Payloads /\ cache[k].fetchedAt.ms \in Times

\* =================================================================== claims
\* The entry under key k is present and, by the specification's rule, fresh
\* for duration d: now < fetchedAt + d.
FreshFor(k, d) == k \in DOMAIN cache /\ now < cache[k].fetchedAt.ms + d

\* The entry under key k is present and, by the specification's rule,
\* expired for duration d: now >= fetchedAt + d.
ExpiredFor(k, d) == k \in DOMAIN cache /\ now >= cache[k].fetchedAt.ms + d

\* The entry a write of data at the current instant leaves in the map.
Stamped(data) == [data |-> data, fetchedAt |-> DateV(now)]

\* C2 as stated: a call whose fetcher rejected has left the map exactly as it
\* was when the call began, whatever was under its key beforehand.
C2_RejectedCallLeftMapUntouched ==
  \A c \in Calls : pc[c] = "rejected" => ~changed[c]

\* C2 amended: a rejection is propagated without any write; the only change a
\* rejected call can have made to the map is the eviction, by its non-forced
\* lookup, of the entry under its key that the lookup found expired.
C2_RejectedCallOnlyEvicts ==
  [][\A c \in Calls :
       /\ FetcherReject(c) => cache' = cache /\ pc'[c] = "rejected"
       /\ \A key \in Keys, d \in Durations, force \in BOOLEAN :
            CachedFetch(c, DefaultUrl, key, d, force) =>
              \/ cache' = cache
              \/ /\ ~force
                 /\ key \in DOMAIN cache
                 /\ now > cache[key].fetchedAt.ms + d
                 /\ cache' = MapDelete(cache, key)
       /\ pc[c] = "rejected" /\ changed[c] => ~cforce[c]]_vars

\* C2 witness: a call was rejected after its lookup evicted the expired entry
\* under its key, and the key is still absent.
C2_Witness ==
  \E c \in Calls : pc[c] = "rejected" /\ changed[c] /\ ckey[c] \notin DOMAIN cache

\* C3 as stated: a call invokes the fetcher exactly once when it misses (key
\* absent, entry expired, or forced) and not at all when it hits (not forced
\* and a fresh entry under the key).
C3_OneFetchPerMissNonePerHit ==
  [][\A c \in Calls, key \in Keys, d \in Durations, force \in BOOLEAN :
       CachedFetch(c, DefaultUrl, key, d, force) =>
         IF ~force /\ FreshFor(key, d)
         THEN pc'[c] = "hit"
         ELSE pc'[c] = "awaiting"]_vars

\* C4 as stated: after a non-forced call has fetched and stored a payload
\* (null and undefined included), a second non-forced call with the same key,
\* begun while that entry is still in place and unexpired, does not invoke the
\* fetcher, so the two calls invoke it once in total.
C4_SecondCallHits ==
  [][\A c1 \in Calls, c2 \in Calls, key \in Keys, d \in Durations :
       ( /\ pc[c1] = "fetched" /\ ~cforce[c1] /\ ckey[c1] = key
         /\ key \in DOMAIN cache
         /\ cache[key].data = cres[c1]
         /\ now < cache[key].fetchedAt.ms + d
         /\ CachedFetch(c2, DefaultUrl, key, d, FALSE) )
       => pc'[c2] = "hit"]_vars

\* C5 as stated: on one key with duration d, a call on the empty key fetches
\* and its completion stores the payload stamped with the time of the write;
\* a call inside the freshness window returns the stored payload without the
\* fetcher and leaves the entry alone; a call after the window invokes the
\* fetcher once more.
C5_TimeSequence ==
  [][\A c \in Calls, key \in Keys, d \in Durations :
       /\ CachedFetch(c, DefaultUrl, key, d, FALSE) /\ key \notin DOMAIN cache
            => pc'[c] = "awaiting"
       /\ \A data \in Payloads :
            FetcherResolve(c, data) => cache'[ckey[c]] = Stamped(data)
       /\ CachedFetch(c, DefaultUrl, key, d, FALSE) /\ FreshFor(key, d)
            => pc'[c] = "hit" /\ cres'[c] = cache[key].data /\ cache' = cache
       /\ CachedFetch(c, DefaultUrl, key, d, FALSE) /\ ExpiredFor(key, d)
            => pc'[c] = "awaiting"]_vars

\* C6: a forced call always invokes the fetcher, whatever is under its key,
\* and when that fetch resolves the entry under the key is the newly fetched
\* payload stamped with the time of the write.
C6_ForceBypass ==
  [][\A c \in Calls :
       /\ \A key \in Keys, d \in Durations :
            CachedFetch(c, DefaultUrl, key, d, TRUE) => pc'[c] = "awaiting" /\ cache' = cache
       /\ \A data \in Payloads :
            FetcherResolve(c, data) /\ cforce[c]
              => cache'[ckey[c]] = Stamped(data) /\ cres'[c] = data]_vars

\* C6 witness: a forced call is awaiting the fetcher although the entry under
\* its key was written at this very instant with a defined payload.
C6_Witness ==
  \E c \in Calls :
    /\ pc[c] = "awaiting" /\ cforce[c]
    /\ ckey[c] \in DOMAIN cache
    /\ cache[ckey[c]].data = "p1"
    /\ cache[ckey[c]].fetchedAt.ms = now
    /\ \A o \in Calls \ {c} : pc[o] = "idle"

\* C7 as stated: a non-forced lookup of a key whose entry is expired reports
\* a miss and removes the key, and the key reappears only by the write of a
\* completed fetch.
C7_EvictOnRead ==
  [][/\ \A c \in Calls, key \in Keys, d \in Durations :
          CachedFetch(c, DefaultUrl, key, d, FALSE) /\ ExpiredFor(key, d)
            => pc'[c] = "awaiting" /\ key \notin DOMAIN cache'
     /\ \A key \in Keys :
          key \notin DOMAIN cache /\ key \in DOMAIN cache'
            => \E c \in Calls, data \in Payloads :
                 FetcherResolve(c, data) /\ ckey[c] = key]_vars

\* C8: a call that misses (key absent or entry past its duration) on a key
\* for which another call's fetch is already in flight invokes the fetcher
\* itself, leaving the other fetch in flight;
\* every completing fetch writes its own entry, so the entry left under the
\* key is the one of the fetch that completed last.
C8_NoSingleFlight ==
  [][\A c1 \in Calls : \A c2 \in Calls \ {c1} :
       /\ \A key \in Keys, d \in Durations :
            ( /\ pc[c1] = "awaiting" /\ ckey[c1] = key
              /\ \/ key \notin DOMAIN cache
                 \/ now > cache[key].fetchedAt.ms + d
              /\ CachedFetch(c2, DefaultUrl, key, d, FALSE) )
            => pc'[c2] = "awaiting" /\ pc'[c1] = "awaiting"
       /\ \A data \in Payloads :
            FetcherResolve(c2, data) /\ pc[c1] = "fetched" /\ ckey[c1] = ckey[c2]
              => cache'[ckey[c2]] = Stamped(data)]_vars

\* C8 witness: both callers missed on the same absent key and both fetches
\* are in flight.
C8_Witness ==
  /\ \A c \in Calls : pc[c] = "awaiting" /\ ~cforce[c] /\ ckey[c] = "k1"
  /\ "k1" \notin DOMAIN cache

\* C1 as stated: in each family an entry stamped at t0 and read with duration
\* d is treated as fresh (kept, its payload served) while now < t0 + d and as
\* expired (the read is a miss) from now = t0 + d on.
C1_FreshnessBoundary ==
  [][/\ \A c \in Calls, key \in Keys, d \in Durations :
          /\ CachedFetch(c, DefaultUrl, key, d, FALSE) /\ FreshFor(key, d)
               => key \in DOMAIN cache' /\ cache'[key] = cache[key]
          /\ CachedFetch(c, DefaultUrl, key, d, FALSE) /\ ExpiredFor(key, d)
               => pc'[c] = "awaiting"
     /\ ( /\ hook'.op \in {"storageGetCachedData", "memoryGetCachedData"}
          /\ hook'.had
          /\ NewDate(hook'.pre.fetchedAt) # NaN )
        => LET t0 == NewDate(hook'.pre.fetchedAt)
           IN /\ now < t0 + hook'.dur => hook'.ret.data = hook'.pre.data
              /\ now >= t0 + hook'.dur => Falsy(hook'.ret)]_vars

\* C9 as stated: a storage read that finds a record whose fetchedAt decodes
\* to no valid instant returns nothing the orchestrator would use (undefined
\* or null), for every duration and time.
C9_CorruptTimestampIsMiss ==
  ( /\ hook.op = "storageGetCachedData"
    /\ hook.had
    /\ NewDate(hook.pre.fetchedAt) = NaN )
  => Falsy(hook.ret)

\* C10 as stated: after the storage onWrite ran with payload p at time t the
\* record under the storage key is exactly {data: p, fetchedAt: t}, whatever
\* was under the key before.
C10_WriteReplacesWholesale ==
  hook.op = "storageTransform" =>
    \A sk \in StorageKeys :
      /\ sk \in DOMAIN localStorage
      /\ localStorage[sk] = [data |-> hook.arg, fetchedAt |-> IsoV(now)]

\* C11 as stated: a storage read that finds the record under the storage key
\* expired removes the record (leaves the empty sentinel) and returns
\* nothing; and a storage read that finds no record under the key (removed
\* by an earlier eviction, or never written) returns nothing as well.
C11_StorageEvictionSentinel ==
  hook.op = "storageGetCachedData" =>
    /\ ( hook.had /\ storageIsExpired(hook.pre.fetchedAt, hook.dur) )
         => /\ Falsy(hook.ret)
            /\ \A sk \in StorageKeys : sk \notin DOMAIN localStorage
    /\ ~hook.had => Falsy(hook.ret)

\* C12: clearCacheKey(key) returns true exactly when an entry was under the
\* key (whatever its age) and false otherwise; after it the key is absent;
\* and the next non-forced cachedFetch on that key, with no other operation
\* on the map in between, invokes the fetcher.
C12_ClearCacheKey ==
  [][/\ \A key \in StoreKeys :
          ClearCacheKey(key) =>
            /\ mgmt'.ret = (IF key \in DOMAIN cache THEN True ELSE False)
            /\ key \notin DOMAIN cache'
     /\ \A c \in Calls, url \in Urls, key \in StoreKeys, d \in StoreDurations :
          ( /\ mgmt.op = "clearCacheKey" /\ mgmt.key = key
            /\ CachedFetch(c, url, key, d, FALSE) )
          => pc'[c] = "awaiting"]_vars

\* C12 witness: clearCacheKey has just returned true for the key under which
\* the caller's completed fetch had stored its entry, and the key is absent.
C12_Witness ==
  /\ mgmt.op = "clearCacheKey" /\ mgmt.had /\ mgmt.ret = True
  /\ mgmt.key \notin DOMAIN cache
  /\ pc[StoreCaller] = "fetched" /\ ckey[StoreCaller] = mgmt.key

\* C13: clearCache() returns true and leaves the map empty, and getCacheKeys()
\* evaluated directly after it yields no key.
C13_ClearCacheEmpties ==
  /\ mgmt.op = "clearCache" => mgmt.ret = True /\ DOMAIN cache = {}
  /\ mgmt.op = "getCacheKeys" /\ mgmt.prev = "clearCache"
       => mgmt.keys = {}

\* C13 witness: getCacheKeys() was evaluated directly after a clearCache()
\* that found entries in the map, and yielded nothing.
C13_Witness ==
  /\ mgmt.op = "getCacheKeys" /\ mgmt.prev = "clearCache" /\ mgmt.had
  /\ mgmt.keys = {}

\* C14 as stated: a call that supplies no key looks its entry up under its
\* URL (so it invokes the fetcher when nothing is stored under the URL) and,
\* when its fetch resolves, stores the entry under its URL, leaving the
\* entries under all other keys as they were.
C14_DefaultKeyIsUrl ==
  [][\A c \in Calls :
       /\ \A url \in Urls, d \in StoreDurations :
            CachedFetch(c, url, Undefined, d, FALSE) /\ url \notin DOMAIN cache
              => pc'[c] = "awaiting"
       /\ \A data \in StorePayloads :
            FetcherResolve(c, data) /\ ckey[c] = Undefined
              => /\ curl[c] \in DOMAIN cache'
                 /\ cache'[curl[c]] = Stamped(data)
                 /\ \A k \in DOMAIN cache \ {curl[c]} :
                      k \in DOMAIN cache' /\ cache'[k] = cache[k]]_vars

\* C15 as stated: once a link has completed its hover prefetch at t0, a read
\* by the target page through the hook of the matching family (the memory
\* hook under the link's cacheKey, the storage hook built with that key),
\* made with duration d while now < t0 + d, returns a value the orchestrator
\* uses, so that no second request is made.
C15_PrefetchHandOff ==
  \A l \in Links :
    ( /\ prefetched[l].done
      /\ hook.op = (IF l = MemoryLink THEN "memoryGetCachedData"
                    ELSE "storageGetCachedData")
      /\ now < prefetched[l].at + hook.dur )
    => ~Falsy(hook.ret)

\* C16 as stated: the storage onWrite returns to its caller the raw payload
\* it was given, and nothing else.
C16_StorageWriteReturnsPayload ==
  hook.op = "storageTransform" => hook.ret = Raw(hook.arg)

\* C17 as stated: the memory onWrite returns, for every payload p, the
\* envelope whose data field is p and whose fetchedAt is the time of the
\* call.
C17_MemoryWriteReturnsEnvelope ==
  hook.op \in {"memoryTransform", "memoryHandlerTransform"}
    => hook.ret = Envelope(hook.arg, DateV(now))

\* C18 as stated: with duration 0 every lookup of a stored entry is a miss,
\* in the fetch wrapper and in both hook families, the lookup made at the
\* instant the entry was stamped included.
C18_DurationZeroAlwaysExpired ==
  [][/\ \A c \in Calls, key \in Keys :
          CachedFetch(c, DefaultUrl, key, 0, FALSE) /\ key \in DOMAIN cache
            => pc'[c] = "awaiting"
     /\ ( /\ hook'.op \in {"storageGetCachedData", "memoryGetCachedData"}
          /\ hook'.had
          /\ hook'.dur = 0
          /\ NewDate(hook'.pre.fetchedAt) # NaN )
        => Falsy(hook'.ret)]_vars

\* C19 as stated: useFetchMemoryCache() called where no ancestor has called
\* provideFetchMemoryCache raises an error; it does not return undefined.
C19_InjectionFailsFast ==
  mgmt.op = "useFetchMemoryCache" /\ ~mgmt.had => mgmt.ret = Threw

\* C20: whatever the hovers and completions, a link instance has at most one
\* prefetch request in flight.
C20_LinkLoadingGuard ==
  \A l \in Links : requests[l] <= 1

\* C20 witness: the pointer entered a link while its request was in flight,
\* and that request is still the only one.
C20_Witness ==
  /\ hook.op = "hover" /\ hook.had
  /\ \E l \in Links : requests[l] = 1 /\ isPrefetching[l]

\* C21: the map is initialized at most once in a session; making a further
\* fetchMemoryCache instance leaves the map as it is, and the call made next,
\* through that instance, works on the entries written before the instance
\* existed: an unexpired entry is a hit for its cachedFetch, clearCacheKey
\* finds and removes it, getCacheKeys lists it.
C21_SharedAmbientMap ==
  [][/\ mapCreated' <= 1
     /\ FetchMemoryCache => cache' = cache
     /\ mgmt.op = "fetchMemoryCache" =>
          /\ \A c \in Calls, url \in Urls, key \in StoreKeys, d \in StoreDurations :
               ( /\ key \in DOMAIN cache
                 /\ ~isExpired(cache[key].fetchedAt, d)
                 /\ CachedFetch(c, url, key, d, FALSE) )
               => pc'[c] = "hit" /\ cres'[c] = cache[key].data
          /\ \A key \in StoreKeys :
               ClearCacheKey(key) /\ key \in DOMAIN cache
                 => mgmt'.ret = True /\ key \notin DOMAIN cache'
          /\ GetCacheKeys => mgmt'.keys = DOMAIN cache]_vars

\* C21 witness: a further instance has just been made while the map held
\* entries, the map was not initialized again and the entries are in it.
C21_Witness ==
  /\ mgmt.op = "fetchMemoryCache" /\ mgmt.had
  /\ mapCreated = 1
  /\ DOMAIN cache # {}

\* C22: getCacheKeys() evaluates to exactly the keys that have an entry in
\* the map when it is evaluated, whatever the age of the entries.
C22_KeysAreTheMapKeys ==
  mgmt.op = "getCacheKeys" => mgmt.keys = DOMAIN cache

\* C22 witness: the keys just listed include one whose entry is older than
\* every bounded duration and has not been looked up since, and leave out
\* the other key, which is not in the map.
C22_Witness ==
  /\ mgmt.op = "getCacheKeys"
  /\ \E k \in mgmt.keys : cache[k].fetchedAt.ms + MaxDuration < now
  /\ \E k \in StoreKeys : k \notin mgmt.keys

\* C23: a cachedFetch hit returns exactly the payload of the most recent
\* completed write under its key: a call that returns without fetching
\* returns the data field of the entry under its key (the payload, not the
\* entry), and that field is the payload the fetch that wrote the entry
\* returned to its own caller.
C23_HitReturnsStoredPayload ==
  [][/\ \A c \in Calls, key \in Keys, d \in Durations, force \in BOOLEAN :
          (CachedFetch(c, DefaultUrl, key, d, force) /\ pc'[c] = "hit")
            => /\ key \in DOMAIN cache
               /\ cres'[c] = cache[key].data
               /\ cres'[c] \in Payloads
     /\ \A c \in Calls, data \in Payloads :
          FetcherResolve(c, data)
            => /\ cres'[c] = data
               /\ cache'[ckey[c]].data = data]_vars

\* One caller populated the key with p1 and got p1; the other then hit and
\* got p1 as well.
C23_Witness ==
  /\ pc["a"] = "fetched" /\ cres["a"] = "p1"
  /\ pc["b"] = "hit" /\ cres["b"] = "p1"
  /\ "k1" \in DOMAIN cache /\ cache["k1"].data = "p1"
  /\ cache["k1"].fetchedAt.ms < now

\* C24 as stated: a cachedFetch call without a duration, and a storage or
\* memory hook pair constructed without a duration (with no argument, or
\* with only a key), validate against 3,600,000 ms: the read of a value
\* stamped at t0 (an object payload) finds it expired exactly when
\* t0 + 3,600,000 < now.
C24_DefaultDuration ==
  [][/\ ( /\ "k1" \in DOMAIN cache
          /\ CachedFetch(StoreCaller, DefaultUrl, "k1",
                         cachedFetchDuration(OnlyKey), FALSE) )
          => ( pc'[StoreCaller] = "awaiting"
                 <=> cache["k1"].fetchedAt.ms + 3600000 < now )
     /\ \A o \in {NoOptions, OnlyKey}, sk \in StorageKeys :
          ( /\ sk \in DOMAIN localStorage
            /\ Truthy(localStorage[sk].data)
            /\ StorageGetCachedData(StorageOrchKey, sk, useStorageCache(o).duration) )
            => ( Falsy(hook'.ret)
                   <=> localStorage[sk].fetchedAt.ms + 3600000 < now )
     /\ \A o \in {NoOptions, OnlyKey} :
          ( /\ ~Falsy(payloadData[MemoryOrchKey])
            /\ MemoryGetCachedData(MemoryOrchKey, useMemoryCache(o).duration) )
            => ( Falsy(hook'.ret)
                   <=> payloadData[MemoryOrchKey].fetchedAt.ms + 3600000 < now )]_vars

\* C25 as stated: once a storage read has found the record under the storage
\* key expired, the next storage read of that key, with no onWrite in
\* between, returns nothing, whatever the orchestrator still holds under
\* its key.
C25_StaleNotRetainedPastDetection ==
  [][( /\ hook.op = "storageGetCachedData"
       /\ hook.had
       /\ storageIsExpired(hook.pre.fetchedAt, hook.dur)
       /\ \E sk \in StorageKeys, duration \in Durations :
            StorageGetCachedData(StorageOrchKey, sk, duration) )
     => Falsy(hook'.ret)]_vars

\* C26: reads do not refresh entries.  A cachedFetch call that returns the
\* cached payload leaves the whole map as it was, and the fetchedAt under a
\* key changes only in the step in which a fetch for that key resolves and
\* writes its entry.
C26_ReadsDoNotRefresh ==
  [][/\ \A c \in Calls, key \in Keys, d \in Durations, force \in BOOLEAN :
          (CachedFetch(c, DefaultUrl, key, d, force) /\ pc'[c] = "hit")
            => cache' = cache
     /\ \A k \in DOMAIN cache \cap DOMAIN cache' :
          cache'[k].fetchedAt # cache[k].fetchedAt
            => \E c \in Calls, data \in Payloads :
                 FetcherResolve(c, data) /\ ckey[c] = k]_vars

\* Both callers have been served from the entry, which still carries the
\* stamp of an earlier instant.
C26_Witness ==
  /\ pc["a"] = "hit" /\ pc["b"] = "hit"
  /\ "k1" \in DOMAIN cache
  /\ cache["k1"].fetchedAt.ms < now
  /\ cres["a"] = cache["k1"].data /\ cres["b"] = cache["k1"].data

\* C27: key isolation.  A step of cachedFetch on key k (the lookup with its
\* eviction, a hit, a forced call, the write after the fetcher resolved, the
\* rejection) and clearCacheKey(k) leave every other key as it was: present
\* with the same entry, or absent.
C27_KeyIsolation ==
  [][LET Isolated(k) ==
           \A k2 \in (DOMAIN cache \cup DOMAIN cache') \ {k} :
             /\ k2 \in DOMAIN cache
             /\ k2 \in DOMAIN cache'
             /\ cache'[k2] = cache[k2]
     IN /\ \A url \in Urls, key \in StoreKeys, d \in StoreDurations,
              force \in BOOLEAN :
             CachedFetch(StoreCaller, url, key, d, force) => Isolated(key)
        /\ \A data \in StorePayloads :
             FetcherResolve(StoreCaller, data) => Isolated(ckey[StoreCaller])
        /\ FetcherReject(StoreCaller) => Isolated(ckey[StoreCaller])
        /\ \A key \in StoreKeys : ClearCacheKey(key) => Isolated(key)]_vars

\* clearCacheKey has just removed the entry under one key while the other
\* key holds an entry.
C27_Witness ==
  /\ mgmt.op = "clearCacheKey" /\ mgmt.had
  /\ mgmt.key \notin DOMAIN cache
  /\ \E k2 \in StoreKeys \ {mgmt.key} : k2 \in DOMAIN cache

\* C28: validity is decided by the reader's duration only.  A non-forced
\* cachedFetch with duration d on a key whose entry was stamped at t0 is
\* decided by t0, d and the clock alone: when t0 + d < now the entry is
\* evicted from the shared map and the fetcher invoked, otherwise the stored
\* payload (when there is one) is returned.  After such an eviction the key
\* is absent, so a non-forced call with any duration, however long, misses
\* and invokes the fetcher.
C28_ReaderDurationDecides ==
  [][\A c \in Calls, key \in Keys, d \in Durations :
       CachedFetch(c, DefaultUrl, key, d, FALSE) =>
         /\ ( key \in DOMAIN cache /\ cache[key].fetchedAt.ms + d < now )
              => /\ key \notin DOMAIN cache'
                 /\ pc'[c] = "awaiting"
         /\ ( /\ key \in DOMAIN cache
              /\ ~(cache[key].fetchedAt.ms + d < now)
              /\ cache[key].data # Undefined )
              => /\ pc'[c] = "hit"
                 /\ cache' = cache
         /\ key \notin DOMAIN cache => pc'[c] = "awaiting"]_vars

\* One caller's non-forced lookup evicted the entry and it is fetching; the
\* other caller's non-forced call found the key absent and is fetching too.
C28_Witness ==
  /\ pc["a"] = "awaiting" /\ ~cforce["a"] /\ changed["a"]
  /\ pc["b"] = "awaiting" /\ ~cforce["b"] /\ ~changed["b"]
  /\ "k1" \notin DOMAIN cache
  /\ now > 0

\* C29: the fetchedAt of an entry is the instant at which the fetch resolved
\* and the entry was written; the clock never going back, the fetchedAt
\* under a key never decreases from one write to the next, in whatever order
\* overlapping fetches complete.
C29_StampedAtResolution ==
  [][\A c \in Calls, data \in Payloads :
       FetcherResolve(c, data) =>
         /\ ckey[c] \in DOMAIN cache'
         /\ cache'[ckey[c]].fetchedAt = DateV(now)
         /\ ckey[c] \in DOMAIN cache
              => cache'[ckey[c]].fetchedAt.ms >= cache[ckey[c]].fetchedAt.ms]_vars

\* Two overlapping fetches of the key have both resolved, with different
\* payloads; the entry is the one written last, stamped with the instant of
\* that write.
C29_Witness ==
  /\ pc["a"] = "fetched" /\ pc["b"] = "fetched"
  /\ cres["a"] # cres["b"]
  /\ "k1" \in DOMAIN cache
  /\ cache["k1"].fetchedAt.ms = now /\ now > 0
  /\ cache["k1"].data = cres["a"]

\* C30: clearing does not cancel fetches in flight.  clearCacheKey and
\* clearCache leave every call where it is, and when a fetch that was
\* awaiting during the clear resolves as the next operation on the map, it
\* writes its entry under its key: the key is present again although no
\* cachedFetch was started after the clear.
C30_ClearDoesNotCancel ==
  [][/\ \A key \in Keys : ClearCacheKey(key) => pc' = pc
     /\ ClearCache => pc' = pc
     /\ \A c \in Calls, data \in Payloads :
          ( /\ mgmt.op \in {"clearCacheKey", "clearCache"}
            /\ FetcherResolve(c, data) )
            => /\ ckey[c] \notin DOMAIN cache
               /\ ckey[c] \in DOMAIN cache'
               /\ cache'[ckey[c]] = Stamped(data)]_vars

\* An entry has just been cleared while a fetch for its key is awaiting the
\* fetcher.
C30_Witness ==
  /\ mgmt.op \in {"clearCacheKey", "clearCache"} /\ mgmt.had
  /\ \E c \in Calls : pc[c] = "awaiting" /\ ckey[c] \notin DOMAIN cache

\* C31: a forced cachedFetch does not evict before fetching.  The forced
\* call leaves the map as it is and invokes the fetcher; while it is in
\* flight a non-forced call on the key that finds the prior entry fresh is
\* served that entry's payload without a fetch and without a change to the
\* map; and when the forced fetch resolves, the entry under the key is
\* replaced by the one it writes.
C31_ForceDoesNotEvict ==
  [][/\ \A c \in Calls, key \in Keys, d \in Durations :
          CachedFetch(c, DefaultUrl, key, d, TRUE)
            => cache' = cache /\ pc'[c] = "awaiting"
     /\ \A c \in Calls, o \in Calls, key \in Keys, d \in Durations :
          ( /\ o # c
            /\ pc[o] = "awaiting" /\ cforce[o] /\ ckey[o] = key
            /\ key \in DOMAIN cache
            /\ ~(cache[key].fetchedAt.ms + d < now)
            /\ cache[key].data # Undefined
            /\ CachedFetch(c, DefaultUrl, key, d, FALSE) )
            => /\ pc'[c] = "hit"
               /\ cres'[c] = cache[key].data
               /\ cache' = cache
     /\ \A c \in Calls, data \in Payloads :
          (cforce[c] /\ FetcherResolve(c, data))
            => cache'[ckey[c]] = Stamped(data)]_vars

\* A forced call is in flight, the prior entry is still in the map, and the
\* other caller's non-forced call was served the payload of that entry.
C31_Witness ==
  /\ pc["a"] = "awaiting" /\ cforce["a"] /\ ~changed["a"]
  /\ pc["b"] = "hit" /\ ~cforce["b"]
  /\ "k1" \in DOMAIN cache
  /\ cres["b"] = cache["k1"].data
  /\ cache["k1"].fetchedAt.ms < now

\* C32: a cachedFetch whose fetcher has not resolved writes nothing.  The
\* step that observes the miss and invokes the fetcher adds no entry and
\* changes none (it can only have evicted the expired entry under its key);
\* and an entry appears or changes under a key only in the step in which a
\* fetch for that key resolves, where the entry becomes, in one replacement,
\* the resolved payload stamped with the current instant.
C32_NoWriteBeforeResolution ==
  [][/\ \A c \in Calls, key \in Keys, d \in Durations, force \in BOOLEAN :
          (CachedFetch(c, DefaultUrl, key, d, force) /\ pc'[c] = "awaiting")
            => /\ DOMAIN cache' \subseteq DOMAIN cache
               /\ \A k \in DOMAIN cache' : cache'[k] = cache[k]
     /\ \A k \in DOMAIN cache' :
          (k \notin DOMAIN cache \/ cache'[k] # cache[k])
            => \E c \in Calls, data \in Payloads :
                 /\ FetcherResolve(c, data)
                 /\ ckey[c] = k
                 /\ cache'[k] = Stamped(data)]_vars

\* A call observed a miss and its fetcher has not settled by the end of the
\* run: its key has no entry and the call has not changed the map.
C32_Witness ==
  /\ pc["a"] = "awaiting" /\ ~cforce["a"] /\ ~changed["a"]
  /\ "k1" \notin DOMAIN cache
  /\ now = MaxTime

\* C33: the memory read is free of side effects.  getCachedData leaves the
\* orchestrator's staged values and localStorage as they are, also when it
\* finds the staged value expired; and when it returns a value, that value
\* is the staged one, unchanged, with the fetchedAt it was staged with.
C33_MemoryReadSideEffectFree ==
  [][(\E duration \in Durations : MemoryGetCachedData(MemoryOrchKey, duration))
       => /\ payloadData' = payloadData
          /\ localStorage' = localStorage
          /\ ~Falsy(hook'.ret)
               => /\ hook'.ret = payloadData[MemoryOrchKey]
                  /\ hook'.ret.fetchedAt = payloadData[MemoryOrchKey].fetchedAt]_vars

\* A memory read has just found the staged value expired and returned
\* nothing; the value is still staged.
C33_Witness ==
  /\ hook.op = "memoryGetCachedData" /\ hook.had
  /\ memoryIsExpired(hook.pre.fetchedAt, hook.dur)
  /\ Falsy(hook.ret)
  /\ ~Falsy(payloadData[MemoryOrchKey])
  /\ payloadData[MemoryOrchKey] = hook.pre

\* C34 as stated: a memory read that finds, under the orchestrator key, a
\* value without a valid fetchedAt (for example one staged by a fetch that
\* did not go through the cache's onWrite) returns nothing, for every
\* duration and time.
C34_UnstampedIsAbsent ==
  ( /\ hook.op = "memoryGetCachedData"
    /\ hook.had
    /\ NewDate(hook.pre.fetchedAt) = NaN )
  => Falsy(hook.ret)

\* C35: every cachedFetch call eventually completes.  A call that awaits its
\* fetcher ends, once the promise settles, having returned the payload or
\* propagated the rejection; and a call that returns the cached payload does
\* so in the step of the call, never out of a wait on a fetcher.
C35_CallsComplete ==
  /\ \A c \in Calls :
       (pc[c] = "awaiting") ~> (pc[c] \in {"fetched", "rejected"})
  /\ [][\A c \in Calls :
         (pc'[c] = "hit" /\ pc'[c] # pc[c]) => pc[c] # "awaiting"]_vars
  /\ [][\A c \in Calls :
         (pc[c] = "awaiting" /\ pc'[c] # pc[c])
           => pc'[c] \in {"fetched", "rejected"}]_vars

\* One call has completed with the payload its fetcher resolved to, the
\* other by propagating the rejection of its fetcher.
C35_Witness ==
  /\ pc["a"] = "fetched" /\ cres["a"] = "p1"
  /\ pc["b"] = "rejected"

\* C36: the guard of a link is released.  Whenever isPrefetching of a link
\* is set, it is false again once the prefetch has settled; the settling
\* step itself resets it, on success as on failure; and a hover of a link
\* that comes after a failed prefetch, the link having no request in flight
\* any more, prefetching being on and the cache not valid, starts a new
\* request.
C36_GuardReleased ==
  /\ \A l \in Links : isPrefetching[l] ~> ~isPrefetching[l]
  /\ [][\A l \in Links : LinkSettle(l) => ~isPrefetching'[l]]_vars
  /\ [][\A l \in Links, cacheDuration \in LinkDurations :
         ( /\ hook.op = "prefetchFailed"
           /\ requests[l] = 0
           /\ ~hasValidCache(l, localStorage, payloadData, cacheDuration).valid
           /\ LinkHover(l, TRUE, cacheDuration) )
         => isPrefetching'[l] /\ requests'[l] = requests[l] + 1]_vars

\* A prefetch has just failed; no link is prefetching and none has a
\* request in flight.
C36_Witness ==
  /\ hook.op = "prefetchFailed"
  /\ \A l \in Links : ~isPrefetching[l] /\ requests[l] = 0

====
